---- MODULE Spec2Model ----
(***************************************************************************)
(* Gap-constrained repeat scheduler of playlist-generator                  *)
(* (src/scheduler.py): _count_map, analyze_gap_feasibility,                *)
(* explain_gap_issue, _schedule_with_gap,                                  *)
(* _randomize_schedule_preserving_gap and generate_round_robin.            *)
(*                                                                         *)
(* Every function is a step operator on a call frame (a record of the      *)
(* function's locals).  The actions apply the step operators to the        *)
(* variables; the same operators, iterated, give the functions as pure     *)
(* operators for the relational properties.                                *)
(*                                                                         *)
(* Song names are strings in the program; they are the integers            *)
(* 1..NumNames here, ordered as Python orders the strings they stand for.  *)
(***************************************************************************)
EXTENDS Integers, Sequences, FiniteSets, TLC

\* ---------------------------------------------------------------- bounds
MaxTracks == 3
NumNames == 3
MaxCount == 2
MaxGap == 2

Names == 1..NumNames
CountValues == -1..MaxCount
GapValues == -1..MaxGap
Track == [name : Names, count : CountValues]
TrackLists == UNION {[1..n -> Track] : n \in 0..MaxTracks}

\* default of the parameter `passes` of _randomize_schedule_preserving_gap
Passes == 2

\* ------------------------------------------------------- Python values
NoneVal == [kind |-> "None"]
Return(v) == [kind |-> "return", value |-> v]
Raise(exc, msg) == [kind |-> "raise", exc |-> exc, msg |-> msg]
Text(s) == [text |-> s]

Max2(a, b) == IF a >= b THEN a ELSE b
Min2(a, b) == IF a <= b THEN a ELSE b

\* ------------------------------------------------------------ _count_map
\* The dict {name: total_count} as the sequence of its items in insertion
\* order (a Python dict iterates in insertion order).
\* `if c > 0`
IsCountedMutant(c) == c >= 0
IsCounted(c) == c > 0

\* counts.get(name, 0)
Get(counts, name) ==
    IF \E i \in DOMAIN counts : counts[i].name = name
    THEN (CHOOSE e \in {counts[i] : i \in DOMAIN counts} : e.name = name).count
    ELSE 0

\* counts.get(name, 0) + c
MergedMutant(counts, name, c) == c
Merged(counts, name, c) == Get(counts, name) + c

\* counts[name] = v: a new key goes last, an old key keeps its place
SetItem(counts, name, v) ==
    IF \E i \in DOMAIN counts : counts[i].name = name
    THEN [i \in DOMAIN counts |->
            IF counts[i].name = name THEN [name |-> name, count |-> v]
            ELSE counts[i]]
    ELSE Append(counts, [name |-> name, count |-> v])

RECURSIVE CountMapUpTo(_, _)
CountMapUpTo(tracks, k) ==
    IF k = 0 THEN <<>>
    ELSE LET counts == CountMapUpTo(tracks, k - 1)
             name == tracks[k].name
             c == tracks[k].count
         IN  IF IsCounted(c)
             THEN SetItem(counts, name, Merged(counts, name, c))
             ELSE counts

CountMap(tracks) == CountMapUpTo(tracks, Len(tracks))

RECURSIVE SumValues(_)
SumValues(counts) ==
    IF counts = <<>> THEN 0 ELSE Head(counts).count + SumValues(Tail(counts))

RECURSIVE MaxValue(_)
MaxValue(counts) ==
    IF Len(counts) = 1 THEN counts[1].count
    ELSE Max2(Head(counts).count, MaxValue(Tail(counts)))

\* [n for n, c in counts.items() if c == max_count]
MostSongs(counts, max_count) ==
    LET sel == SelectSeq(counts, LAMBDA e : e.count = max_count)
    IN  [i \in 1..Len(sel) |-> sel[i].name]

\* ------------------------------------------------ analyze_gap_feasibility
FeasibleTestMutant(others, required_others) == others > required_others
FeasibleTest(others, required_others) == others >= required_others

RequiredOthersAll(gap, max_count) == gap * max_count
RequiredOthers(gap, max_count) == gap * (max_count - 1)

\* `if gap <= 0`
UnconstrainedZeroOnly(gap) == gap = 0
Unconstrained(gap) == gap <= 0

AnalyzeGapFeasibility(tracks, gap) ==
    LET counts == CountMap(tracks)
    IN  IF counts = <<>>
        THEN [feasible |-> TRUE, gap |-> gap, total |-> 0, max_count |-> 0,
              most_songs |-> <<>>, others |-> 0, required_others |-> 0,
              extra_others_needed |-> 0, max_feasible_for_max_song |-> 0]
        ELSE LET total == SumValues(counts)
                 max_count == MaxValue(counts)
                 most_songs == MostSongs(counts, max_count)
             IN  IF Unconstrained(gap)
                 THEN [feasible |-> TRUE, gap |-> gap, total |-> total,
                       max_count |-> max_count, most_songs |-> most_songs,
                       others |-> total - max_count, required_others |-> 0,
                       extra_others_needed |-> 0,
                       max_feasible_for_max_song |-> max_count]
                 ELSE LET others == total - max_count
                          required_others == RequiredOthers(gap, max_count)
                      IN  [feasible |-> FeasibleTest(others, required_others),
                           gap |-> gap, total |-> total,
                           max_count |-> max_count, most_songs |-> most_songs,
                           others |-> others,
                           required_others |-> required_others,
                           extra_others_needed |->
                               Max2(0, required_others - others),
                           max_feasible_for_max_song |-> 1 + (others \div gap)]

\* ------------------------------------------------------ explain_gap_issue
\* The explanation is the f-string's fixed text with the report's fields
\* interpolated; it is the record of the values the text shows.
ExplainGapIssue(tracks, gap) ==
    LET info == AnalyzeGapFeasibility(tracks, gap)
    IN  IF info.feasible THEN NoneVal
        ELSE [text |-> "With min_gap={gap}, the current counts are mathematically impossible.",
              gap |-> info.gap,
              most_songs |-> info.most_songs,
              max_count |-> info.max_count,
              total |-> info.total,
              others |-> info.others,
              required_others |-> info.required_others,
              max_feasible_for_max_song |-> info.max_feasible_for_max_song,
              extra_others_needed |-> info.extra_others_needed]

\* ---------------------------------------------------- heapq on (-c, name)
\* Python compares the tuples (negc, name) lexicographically.
TupleLessCountOnly(a, b) == a[1] < b[1]
TupleLessMutant(a, b) == a[1] > b[1] \/ (a[1] = b[1] /\ a[2] < b[2])
TupleLess(a, b) == a[1] < b[1] \/ (a[1] = b[1] /\ a[2] < b[2])

\* The heap is kept as the sequence of its entries in the order heappop
\* would return them.
HeapPushUnordered(heap, x) == Append(heap, x)
HeapPush(heap, x) ==
    LET k == Cardinality({i \in DOMAIN heap : ~TupleLess(x, heap[i])})
    IN  SubSeq(heap, 1, k) \o <<x>> \o SubSeq(heap, k + 1, Len(heap))

RECURSIVE Heapify(_)
Heapify(list) ==
    IF list = <<>> THEN <<>>
    ELSE HeapPush(Heapify(SubSeq(list, 1, Len(list) - 1)), list[Len(list)])

\* ------------------------------------------------------------ gap checks
\* The loop over last_pos of the safety check and of valid_all: position i
\* (1-based here) against the previous position of the same name.
LastPos(seq, i) ==
    LET before == {j \in 1..(i - 1) : seq[j] = seq[i]}
    IN  IF before = {} THEN 0 ELSE CHOOSE j \in before : \A k \in before : k <= j

ValidAll(seq, min_gap) ==
    \A i \in DOMAIN seq :
        LastPos(seq, i) = 0 \/ ~(i - LastPos(seq, i) - 1 < min_gap)

\* ------------------------------------------------------------ call frames
VARIABLES
    call,             \* the function the client called
    tracks,           \* argument: list of {"name", "count"}
    args,             \* the gap bounds as the caller passed them
    preferred_gap,    \* generate_round_robin: parameter / local
    min_allowed_gap,  \* generate_round_robin: parameter / local
    randomize,        \* generate_round_robin: parameter
    pc,               \* position in the code
    gap,              \* generate_round_robin: candidate gap
    info,             \* generate_round_robin: report of the candidate gap
    last_issue,       \* generate_round_robin: report of the last failed gap
    attempts,         \* history: the verdict of every finished loop iteration
    min_gap,          \* _schedule_with_gap: parameter
    total,            \* _schedule_with_gap: sum of the counts
    heap,             \* _schedule_with_gap: heap of (-count, name)
    cooldown,         \* _schedule_with_gap: deque of (ready_step, -count, name)
    result,           \* _schedule_with_gap: names placed so far
    step,             \* _schedule_with_gap: number of names placed
    sched_ret,        \* how the call of _schedule_with_gap ended
    order,            \* _randomize_schedule_preserving_gap: parameter
    rand_min_gap,     \* _randomize_schedule_preserving_gap: parameter min_gap
    res,              \* _randomize_schedule_preserving_gap: working copy
    draws,            \* _randomize_schedule_preserving_gap: iterations done
    ret               \* how the client's call ended

vars == <<call, tracks, args, preferred_gap, min_allowed_gap, randomize, pc,
          gap, info, last_issue, attempts, min_gap, total, heap, cooldown,
          result, step, sched_ret, order, rand_min_gap, res, draws, ret>>

Frame ==
    [call |-> call, tracks |-> tracks, args |-> args,
     preferred_gap |-> preferred_gap, min_allowed_gap |-> min_allowed_gap,
     randomize |-> randomize, pc |-> pc, gap |-> gap, info |-> info,
     last_issue |-> last_issue, attempts |-> attempts, min_gap |-> min_gap,
     total |-> total, heap |-> heap, cooldown |-> cooldown,
     result |-> result, step |-> step, sched_ret |-> sched_ret,
     order |-> order, rand_min_gap |-> rand_min_gap, res |-> res,
     draws |-> draws, ret |-> ret]

SetFrame(f) ==
    /\ call' = f.call
    /\ tracks' = f.tracks
    /\ args' = f.args
    /\ preferred_gap' = f.preferred_gap
    /\ min_allowed_gap' = f.min_allowed_gap
    /\ randomize' = f.randomize
    /\ pc' = f.pc
    /\ gap' = f.gap
    /\ info' = f.info
    /\ last_issue' = f.last_issue
    /\ attempts' = f.attempts
    /\ min_gap' = f.min_gap
    /\ total' = f.total
    /\ heap' = f.heap
    /\ cooldown' = f.cooldown
    /\ result' = f.result
    /\ step' = f.step
    /\ sched_ret' = f.sched_ret
    /\ order' = f.order
    /\ rand_min_gap' = f.rand_min_gap
    /\ res' = f.res
    /\ draws' = f.draws
    /\ ret' = f.ret

StartFrame(f) ==
    /\ call = f.call
    /\ tracks = f.tracks
    /\ args = f.args
    /\ preferred_gap = f.preferred_gap
    /\ min_allowed_gap = f.min_allowed_gap
    /\ randomize = f.randomize
    /\ pc = f.pc
    /\ gap = f.gap
    /\ info = f.info
    /\ last_issue = f.last_issue
    /\ attempts = f.attempts
    /\ min_gap = f.min_gap
    /\ total = f.total
    /\ heap = f.heap
    /\ cooldown = f.cooldown
    /\ result = f.result
    /\ step = f.step
    /\ sched_ret = f.sched_ret
    /\ order = f.order
    /\ rand_min_gap = f.rand_min_gap
    /\ res = f.res
    /\ draws = f.draws
    /\ ret = f.ret

\* The frame at the call, before the first statement: locals not yet bound.
NewFrame(c, t, p, m, r, g) ==
    [call |-> c, tracks |-> t,
     args |-> [preferred_gap |-> p, min_allowed_gap |-> m],
     preferred_gap |-> p, min_allowed_gap |-> m, randomize |-> r,
     pc |-> IF c = "generate_round_robin" THEN "entry" ELSE "sched_entry",
     gap |-> 0, info |-> NoneVal, last_issue |-> NoneVal, attempts |-> <<>>,
     min_gap |-> g, total |-> 0, heap |-> <<>>, cooldown |-> <<>>,
     result |-> <<>>, step |-> 0, sched_ret |-> NoneVal,
     order |-> <<>>, rand_min_gap |-> 0, res |-> <<>>, draws |-> 0,
     ret |-> NoneVal]

\* ---------------------------------------------------- _schedule_with_gap
\* result.extend([name] * c) for every item of the dict, in its order
RECURSIVE Grouped(_)
Grouped(counts) ==
    IF counts = <<>> THEN <<>>
    ELSE [i \in 1..Head(counts).count |-> Head(counts).name]
         \o Grouped(Tail(counts))

ReadyStepEarly(s, g) == s + g - 1
ReadyStepLate(s, g) == s + g + 1
ReadyStep(s, g) == s + g

\* `if count_left > 0`
HasLeftOrNone(count_left) == count_left >= 0
HasLeft(count_left) == count_left > 0

\* cooldown.append(entry)
CooldownAppendLeft(cd, e) == <<e>> \o cd
CooldownAppend(cd, e) == Append(cd, e)

\* while cooldown and cooldown[0][0] <= step: popleft, heappush
ReleaseNothing(h, cd, s) == [heap |-> h, cooldown |-> cd]
RECURSIVE Release(_, _, _)
Release(h, cd, s) ==
    IF cd # <<>> /\ Head(cd)[1] <= s
    THEN Release(HeapPush(h, <<Head(cd)[2], Head(cd)[3]>>), Tail(cd), s)
    ELSE [heap |-> h, cooldown |-> cd]

\* How a finished call of _schedule_with_gap hands over: to the try block of
\* generate_round_robin, or to the client that called it directly.
SchedExit(f, r) ==
    IF f.call = "_schedule_with_gap"
    THEN [f EXCEPT !.pc = "done", !.sched_ret = r, !.ret = r]
    ELSE [f EXCEPT !.pc = "after_schedule", !.sched_ret = r]

\* lines 129-148: count map, empty and gap <= 0 cases, heap and queue set up
SchedEntry(f) ==
    LET counts == CountMap(f.tracks)
    IN  IF counts = <<>>
        THEN SchedExit(f, Return(<<>>))
        ELSE IF f.min_gap <= 0
        THEN SchedExit([f EXCEPT !.total = SumValues(counts),
                                 !.result = Grouped(counts)],
                       Return(Grouped(counts)))
        ELSE [f EXCEPT !.total = SumValues(counts),
                       !.heap = Heapify([i \in DOMAIN counts |->
                                    <<-counts[i].count, counts[i].name>>]),
                       !.cooldown = <<>>,
                       !.result = <<>>,
                       !.step = 0,
                       !.pc = "sched_loop"]

\* lines 150-170: the loop test and one iteration of the main loop
SchedLoop(f) ==
    IF f.heap = <<>> /\ f.cooldown = <<>>
    THEN [f EXCEPT !.pc = "sched_post"]
    ELSE LET rel == Release(f.heap, f.cooldown, f.step)
         IN  IF rel.heap = <<>>
             THEN IF Len(f.result) # f.total
                  THEN SchedExit([f EXCEPT !.heap = rel.heap,
                                           !.cooldown = rel.cooldown],
                           Raise("ValueError", Text("Cannot schedule with given gap; heap empty while songs remain.")))
                  ELSE [f EXCEPT !.heap = rel.heap, !.cooldown = rel.cooldown,
                                 !.pc = "sched_post"]
             ELSE LET negc == Head(rel.heap)[1]
                      name == Head(rel.heap)[2]
                      count_left == (-negc) - 1
                      step1 == f.step + 1
                  IN  [f EXCEPT
                         !.heap = Tail(rel.heap),
                         !.result = Append(f.result, name),
                         !.step = step1,
                         !.cooldown =
                             IF HasLeft(count_left)
                             THEN CooldownAppend(rel.cooldown,
                                    <<ReadyStep(step1, f.min_gap), -count_left, name>>)
                             ELSE rel.cooldown]

\* lines 172-183: the checks after the loop and the return
SchedPost(f) ==
    IF Len(f.result) # f.total
    THEN SchedExit(f, Raise("ValueError", Text("Cannot schedule with given gap; not all songs placed.")))
    ELSE IF f.min_gap > 0 /\ ~ValidAll(f.result, f.min_gap)
    THEN SchedExit(f, Raise("AssertionError", Text("min_gap violated by internal scheduler")))
    ELSE SchedExit(f, Return(f.result))

SchedStep(f) ==
    CASE f.pc = "sched_entry" -> SchedEntry(f)
      [] f.pc = "sched_loop" -> SchedLoop(f)
      [] f.pc = "sched_post" -> SchedPost(f)

RECURSIVE RunSchedule(_)
RunSchedule(f) ==
    IF f.pc \in {"sched_entry", "sched_loop", "sched_post"}
    THEN RunSchedule(SchedStep(f))
    ELSE f

\* _schedule_with_gap(tracks, min_gap) as a function of its arguments
ScheduleWithGap(t, g) ==
    RunSchedule(NewFrame("_schedule_with_gap", t, 0, 0, FALSE, g)).ret

\* -------------------------------- _randomize_schedule_preserving_gap
\* res[i], res[j] = res[j], res[i] with the 0-based positions i, j
SwapOneWay(seq, i, j) ==
    [k \in DOMAIN seq |-> IF k = i + 1 THEN seq[j + 1] ELSE seq[k]]
Swap(seq, i, j) ==
    [k \in DOMAIN seq |->
        IF k = i + 1 THEN seq[j + 1] ELSE IF k = j + 1 THEN seq[i + 1] ELSE seq[k]]

\* lines 193-210: the early return, the copy and the initial assertion
RandEntryShort(f) ==
    IF f.rand_min_gap <= 0 \/ Len(f.order) < 2
    THEN [f EXCEPT !.pc = "done", !.res = f.order, !.ret = Return(f.order)]
    ELSE IF ~ValidAll(f.order, f.rand_min_gap)
    THEN [f EXCEPT !.pc = "done", !.res = f.order,
                   !.ret = Raise("AssertionError", Text(""))]
    ELSE [f EXCEPT !.pc = "rand_loop", !.res = f.order, !.draws = 0]
RandEntry(f) ==
    IF f.rand_min_gap <= 0 \/ Len(f.order) <= 2
    THEN [f EXCEPT !.pc = "done", !.res = f.order, !.ret = Return(f.order)]
    ELSE IF ~ValidAll(f.order, f.rand_min_gap)
    THEN [f EXCEPT !.pc = "done", !.res = f.order,
                   !.ret = Raise("AssertionError", Text(""))]
    ELSE [f EXCEPT !.pc = "rand_loop", !.res = f.order, !.draws = 0]

\* num_swaps = passes * n
NumSwapsOnePass(n) == n
NumSwaps(n) == Passes * n

KeepSwapMutant(seq, g) == TRUE
KeepSwap(seq, g) == ValidAll(seq, g)

\* lines 211-219: one iteration of the swap loop with the draws i and j
RandSwap(f, i, j) ==
    IF i = j
    THEN [f EXCEPT !.draws = f.draws + 1]
    ELSE LET swapped == Swap(f.res, i, j)
         IN  [f EXCEPT !.draws = f.draws + 1,
                       !.res = IF KeepSwap(swapped, f.rand_min_gap)
                               THEN swapped ELSE f.res]

\* line 221
RandReturn(f) == [f EXCEPT !.pc = "done", !.ret = Return(f.res)]

\* ----------------------------------------------------- generate_round_robin
NormalizeMutant(f) == f
Normalize(f) ==
    IF f.preferred_gap < f.min_allowed_gap
    THEN [f EXCEPT !.preferred_gap = f.min_allowed_gap,
                   !.min_allowed_gap = f.preferred_gap]
    ELSE f

\* lines 250-254
EnterMutant(f) ==
    LET n == Normalize(f)
    IN  [n EXCEPT !.last_issue = NoneVal, !.gap = n.min_allowed_gap,
                  !.pc = "fallback"]
Enter(f) ==
    LET n == Normalize(f)
    IN  [n EXCEPT !.last_issue = NoneVal, !.gap = n.preferred_gap,
                  !.pc = "fallback"]

\* lines 256-266: the loop test, the analyzer's verdict, the call of the
\* scheduler
FallbackKeepFirst(f) ==
    IF ~(f.gap >= f.min_allowed_gap)
    THEN [f EXCEPT !.pc = "exhausted"]
    ELSE LET i == AnalyzeGapFeasibility(f.tracks, f.gap)
         IN  IF ~i.feasible
             THEN [f EXCEPT !.info = i,
                      !.last_issue = IF f.last_issue = NoneVal THEN i
                                     ELSE f.last_issue,
                      !.gap = f.gap - 1,
                      !.attempts = Append(f.attempts,
                          [gap |-> f.gap, feasible |-> FALSE, scheduled |-> FALSE])]
             ELSE [f EXCEPT !.info = i, !.min_gap = f.gap,
                            !.pc = "sched_entry"]
Fallback(f) ==
    IF ~(f.gap >= f.min_allowed_gap)
    THEN [f EXCEPT !.pc = "exhausted"]
    ELSE LET i == AnalyzeGapFeasibility(f.tracks, f.gap)
         IN  IF ~i.feasible
             THEN [f EXCEPT !.info = i, !.last_issue = i, !.gap = f.gap - 1,
                      !.attempts = Append(f.attempts,
                          [gap |-> f.gap, feasible |-> FALSE, scheduled |-> FALSE])]
             ELSE [f EXCEPT !.info = i, !.min_gap = f.gap,
                            !.pc = "sched_entry"]

\* lines 267-275: the rest of the try block and the except clause
AfterSchedulePropagate(f) ==
    IF f.sched_ret.kind = "return"
    THEN LET done == [f EXCEPT !.attempts = Append(f.attempts,
                          [gap |-> f.gap, feasible |-> TRUE, scheduled |-> TRUE])]
         IN  IF f.randomize
             THEN [done EXCEPT !.pc = "rand_entry",
                               !.order = f.sched_ret.value,
                               !.rand_min_gap = f.gap]
             ELSE [done EXCEPT !.pc = "done", !.ret = f.sched_ret]
    ELSE [f EXCEPT !.pc = "done", !.ret = f.sched_ret,
                   !.attempts = Append(f.attempts,
                       [gap |-> f.gap, feasible |-> TRUE, scheduled |-> FALSE])]
AfterSchedule(f) ==
    IF f.sched_ret.kind = "return"
    THEN LET done == [f EXCEPT !.attempts = Append(f.attempts,
                          [gap |-> f.gap, feasible |-> TRUE, scheduled |-> TRUE])]
         IN  IF f.randomize
             THEN [done EXCEPT !.pc = "rand_entry",
                               !.order = f.sched_ret.value,
                               !.rand_min_gap = f.gap]
             ELSE [done EXCEPT !.pc = "done", !.ret = f.sched_ret]
    ELSE IF f.sched_ret.exc = "ValueError"
    THEN [f EXCEPT !.last_issue = AnalyzeGapFeasibility(f.tracks, f.gap),
                   !.gap = f.gap - 1,
                   !.pc = "fallback",
                   !.attempts = Append(f.attempts,
                       [gap |-> f.gap, feasible |-> TRUE, scheduled |-> FALSE])]
    ELSE [f EXCEPT !.pc = "done", !.ret = f.sched_ret]

\* lines 277-281
Exhausted(f) ==
    IF f.last_issue = NoneVal
    THEN [f EXCEPT !.pc = "done",
                   !.ret = Raise("ValueError", Text("No tracks to schedule."))]
    ELSE LET msg == ExplainGapIssue(f.tracks, f.last_issue.gap)
         IN  [f EXCEPT !.pc = "done",
                 !.ret = Raise("ValueError",
                     IF msg # NoneVal THEN msg
                     ELSE Text("Cannot schedule playlist with given gaps."))]

\* The deterministic part of a call: every step but the randomizer's draws.
Step(f) ==
    CASE f.pc = "entry" -> Enter(f)
      [] f.pc = "fallback" -> Fallback(f)
      [] f.pc = "after_schedule" -> AfterSchedule(f)
      [] f.pc = "exhausted" -> Exhausted(f)
      [] OTHER -> SchedStep(f)

RECURSIVE Run(_)
Run(f) == IF f.pc \in {"done", "rand_entry"} THEN f ELSE Run(Step(f))

\* generate_round_robin(tracks, preferred_gap, min_allowed_gap) with
\* randomize=False, as a function of its arguments
GenerateRoundRobin(t, p, m) ==
    Run(NewFrame("generate_round_robin", t, p, m, FALSE, 0)).ret

\* ------------------------------------------------------------ actions
GrrEnter == pc = "entry" /\ SetFrame(Enter(Frame))
GrrFallback == pc = "fallback" /\ SetFrame(Fallback(Frame))
GrrAfterSchedule == pc = "after_schedule" /\ SetFrame(AfterSchedule(Frame))
GrrExhausted == pc = "exhausted" /\ SetFrame(Exhausted(Frame))
ScheduleEntry == pc = "sched_entry" /\ SetFrame(SchedEntry(Frame))
ScheduleLoop == pc = "sched_loop" /\ SetFrame(SchedLoop(Frame))
SchedulePost == pc = "sched_post" /\ SetFrame(SchedPost(Frame))
RandomizeEntry == pc = "rand_entry" /\ SetFrame(RandEntry(Frame))
RandomizeSwap ==
    /\ pc = "rand_loop"
    /\ draws < NumSwaps(Len(order))
    /\ \E i, j \in 0..(Len(order) - 1) : SetFrame(RandSwap(Frame, i, j))
RandomizeReturn ==
    /\ pc = "rand_loop"
    /\ ~(draws < NumSwaps(Len(order)))
    /\ SetFrame(RandReturn(Frame))

\* A client calls generate_round_robin(tracks, preferred_gap,
\* min_allowed_gap, randomize).
Init ==
    \E t \in TrackLists, p \in GapValues, m \in GapValues, r \in BOOLEAN :
        StartFrame(NewFrame("generate_round_robin", t, p, m, r, 0))

Next ==
    \/ GrrEnter
    \/ GrrFallback
    \/ GrrAfterSchedule
    \/ GrrExhausted
    \/ ScheduleEntry
    \/ ScheduleLoop
    \/ SchedulePost
    \/ RandomizeEntry
    \/ RandomizeSwap
    \/ RandomizeReturn

Spec == Init /\ [][Next]_vars

\* The same call for the termination properties.  The program is one thread
\* that always executes its next statement: weak fairness of Next.  A step
\* is possible exactly while pc # "done" (every action is total on its pc,
\* the two of the swap loop have complementary tests), so WF_vars(Next) is
\* written with that in place of ENABLED <<Next>>_vars.
Fairness == []<>(pc = "done") \/ []<><<Next>>_vars

SpecLive == Init /\ [][Next]_vars /\ Fairness

\* A client calls _schedule_with_gap(tracks, min_gap) directly.
InitSchedule ==
    \E t \in TrackLists, g \in GapValues :
        StartFrame(NewFrame("_schedule_with_gap", t, 0, 0, FALSE, g))

NextSchedule ==
    \/ ScheduleEntry
    \/ ScheduleLoop
    \/ SchedulePost

SpecSchedule == InitSchedule /\ [][NextSchedule]_vars

\* A client calls analyze_gap_feasibility(tracks, gap) directly.
AnalyzeCall(f) ==
    LET i == AnalyzeGapFeasibility(f.tracks, f.gap)
    IN  [f EXCEPT !.pc = "done", !.info = i, !.ret = Return(i)]

NewAnalyzeFrame(t, g) ==
    [NewFrame("analyze_gap_feasibility", t, 0, 0, FALSE, 0)
        EXCEPT !.pc = "analyze_entry", !.gap = g]

Analyze == pc = "analyze_entry" /\ SetFrame(AnalyzeCall(Frame))

InitAnalyze ==
    \E t \in TrackLists, g \in GapValues : StartFrame(NewAnalyzeFrame(t, g))

NextAnalyze == Analyze

SpecAnalyze == InitAnalyze /\ [][NextAnalyze]_vars

\* A client calls _randomize_schedule_preserving_gap(order, min_gap)
\* directly, with any list of names as order.
MaxOrderLen == 4
OrderLists == UNION {[1..n -> Names] : n \in 0..MaxOrderLen}

NewRandomizeFrame(o, g) ==
    [NewFrame("_randomize_schedule_preserving_gap", <<>>, 0, 0, TRUE, 0)
        EXCEPT !.pc = "rand_entry", !.order = o, !.rand_min_gap = g]

InitRandomize ==
    \E o \in OrderLists, g \in GapValues : StartFrame(NewRandomizeFrame(o, g))

NextRandomize ==
    \/ RandomizeEntry
    \/ RandomizeSwap
    \/ RandomizeReturn

SpecRandomize == InitRandomize /\ [][NextRandomize]_vars

\* A client calls analyze_gap_feasibility(tracks, gap) for a gap > 0 and,
\* told that the counts are impossible, follows the second remedy of the
\* explanation: it adds extra_others_needed new songs of one occurrence
\* each (names not in the list) and calls
\* generate_round_robin(tracks, gap, gap).
MaxRecoverCount == 3
RecoverLists ==
    UNION {[1..n -> [name : Names, count : 1..MaxRecoverCount]] : n \in 1..MaxTracks}

Augmented(t, extra) ==
    t \o [k \in 1..extra |-> [name |-> NumNames + k, count |-> 1]]

ClientRetry ==
    /\ call = "analyze_gap_feasibility"
    /\ pc = "done"
    /\ ~info.feasible
    /\ SetFrame(NewFrame("generate_round_robin",
                    Augmented(tracks, info.extra_others_needed),
                    gap, gap, FALSE, 0))

InitRecover ==
    \E t \in RecoverLists, g \in 1..MaxGap : StartFrame(NewAnalyzeFrame(t, g))

NextRecover ==
    \/ Analyze
    \/ ClientRetry
    \/ GrrEnter
    \/ GrrFallback
    \/ GrrAfterSchedule
    \/ GrrExhausted
    \/ ScheduleEntry
    \/ ScheduleLoop
    \/ SchedulePost

SpecRecover == InitRecover /\ [][NextRecover]_vars

\* =====================================================================
\* Properties.  The definitions below are stated from the input and the
\* output alone, not from the operators of the model above.
\* =====================================================================

\* number of positions of seq holding name
Occurrences(seq, name) == Cardinality({i \in DOMAIN seq : seq[i] = name})

\* sum of the positive counts of the entries of t called name
RECURSIVE MergedCount(_, _)
MergedCount(t, name) ==
    IF t = <<>> THEN 0
    ELSE (IF Head(t).name = name /\ Head(t).count > 0 THEN Head(t).count ELSE 0)
         + MergedCount(Tail(t), name)

TotalCount(t) ==
    LET S[k \in 0..NumNames] ==
            IF k = 0 THEN 0 ELSE S[k - 1] + MergedCount(t, k)
    IN  S[NumNames]

\* Two consecutive occurrences of a name have at least g entries between.
GapRespected(seq, g) ==
    \A i, j \in DOMAIN seq :
        (/\ i < j
         /\ seq[i] = seq[j]
         /\ \A k \in (i + 1)..(j - 1) : seq[k] # seq[i])
        => j - i - 1 >= g

\* Some ordering of all occurrences of t respects the gap g: search over the
\* ways to extend a prefix by a name that still has occurrences left.
RECURSIVE CanComplete(_, _, _)
CanComplete(t, g, prefix) ==
    IF Len(prefix) = TotalCount(t) THEN TRUE
    ELSE \E name \in Names :
            /\ Occurrences(prefix, name) < MergedCount(t, name)
            /\ GapRespected(Append(prefix, name), g)
            /\ CanComplete(t, g, Append(prefix, name))

ExistsValidOrdering(t, g) == CanComplete(t, g, <<>>)

LoBound == Min2(args.preferred_gap, args.min_allowed_gap)
HiBound == Max2(args.preferred_gap, args.min_allowed_gap)
Returned == pc = "done" /\ ret.kind = "return"
Raised == pc = "done" /\ ret.kind = "raise"

\* C1: whenever generate_round_robin returns a sequence, each name occurs in
\* it exactly as often as its merged positive count, for every input, every
\* pair of gap bounds and both values of randomize.
C1_MultisetPreserved ==
    Returned =>
        /\ \A name \in Names :
              Occurrences(ret.value, name) = MergedCount(tracks, name)
        /\ Len(ret.value) = TotalCount(tracks)

\* C1 witness: a randomized return at a positive gap for an input with a
\* merged duplicate
C1_Witness ==
    /\ Returned
    /\ randomize
    /\ LoBound > 0
    /\ \E i, j \in DOMAIN tracks :
          i < j /\ tracks[i].name = tracks[j].name
          /\ tracks[i].count > 0 /\ tracks[j].count > 0
    /\ Len(ret.value) >= 3

\* C2: whenever generate_round_robin returns and the smaller bound is > 0,
\* the result respects some gap g between the bounds; the randomizer is run
\* with the gap of the successful attempt.
C2_GapRespected ==
    /\ (Returned /\ LoBound > 0) =>
          \E g \in LoBound..HiBound : GapRespected(ret.value, g)
    /\ (pc \in {"rand_entry", "rand_loop"} \/ (Returned /\ randomize)) =>
          /\ rand_min_gap = attempts[Len(attempts)].gap
          /\ attempts[Len(attempts)].scheduled
          /\ (LoBound > 0 => GapRespected(res, rand_min_gap) \/ pc = "rand_entry")

\* C2 witness: a randomized return at a gap below the preferred one, after
\* all the randomizer's draws
C2_Witness ==
    /\ Returned
    /\ randomize
    /\ LoBound > 0
    /\ rand_min_gap < HiBound
    /\ draws = Passes * Len(order)
    /\ \E name \in Names : Occurrences(ret.value, name) >= 2

\* C3 (as claimed): for gap > 0 the analyzer reports feasible exactly when
\* some ordering of all occurrences respects the gap.
C3_FeasibleIffOrderingExists ==
    (info # NoneVal /\ info.gap > 0) =>
        (info.feasible <=> ExistsValidOrdering(tracks, info.gap))

\* C4: for gap > 0, a gap the analyzer reports infeasible has no valid
\* ordering, so no gap skipped by the fallback loop could have been
\* scheduled.
C4_InfeasibleIsImpossible ==
    pc = "done" =>
        \A k \in DOMAIN attempts :
            (attempts[k].gap > 0 /\ ~attempts[k].feasible) =>
                ~ExistsValidOrdering(tracks, attempts[k].gap)

\* C4 witness: the loop skipped a gap and returned a schedule at a smaller
\* positive gap
C4_Witness ==
    /\ Returned
    /\ Len(attempts) >= 2
    /\ ~attempts[1].feasible
    /\ attempts[Len(attempts)].gap > 0
    /\ Cardinality({name \in Names : MergedCount(tracks, name) > 0}) >= 2

\* C5 (as claimed): _schedule_with_gap raises ValueError only when the
\* analyzer reports the pair infeasible.
C5_FailsOnlyIfInfeasible ==
    (pc = "done" /\ AnalyzeGapFeasibility(tracks, min_gap).feasible) =>
        ret.kind = "return"

\* C6: for gap > 0, _schedule_with_gap returns a schedule whenever some
\* valid ordering exists.
C6_GreedyComplete ==
    (pc = "done" /\ min_gap > 0 /\ ExistsValidOrdering(tracks, min_gap)) =>
        /\ ret.kind = "return"
        /\ GapRespected(ret.value, min_gap)

\* C6 witness: a schedule for three names, two of them tied, at a gap
\* that leaves no slack
C6_Witness ==
    /\ pc = "done"
    /\ call = "_schedule_with_gap"
    /\ min_gap = 2
    /\ ret.kind = "return"
    /\ MergedCount(tracks, 1) = 2
    /\ MergedCount(tracks, 2) = 2
    /\ MergedCount(tracks, 3) = 1
    /\ ~ExistsValidOrdering(tracks, 3)

\* The verdicts of the analyzer and of the scheduler for the gap g.
Feasible(g) == AnalyzeGapFeasibility(tracks, g).feasible
Schedulable(g) == Feasible(g) /\ ScheduleWithGap(tracks, g).kind = "return"

\* C7: the candidate gaps are tried in strictly descending order from the
\* larger bound, none below the smaller bound; a returned schedule is the
\* one built at the largest gap in range that the analyzer accepts and the
\* scheduler completes, every larger gap having been rejected or failed.
C7_DescendingFirstSuccess ==
    /\ \A k \in DOMAIN attempts :
          /\ attempts[k].gap = HiBound - (k - 1)
          /\ attempts[k].gap >= LoBound
          /\ attempts[k].feasible = Feasible(attempts[k].gap)
          /\ attempts[k].scheduled = Schedulable(attempts[k].gap)
          /\ k < Len(attempts) => ~attempts[k].scheduled
    /\ pc \in {"sched_entry", "sched_loop", "sched_post", "after_schedule"} =>
          /\ min_gap = gap
          /\ gap = HiBound - Len(attempts)
          /\ gap >= LoBound
    /\ Returned =>
          LET g == attempts[Len(attempts)].gap
          IN  /\ Schedulable(g)
              /\ \A h \in (g + 1)..HiBound : ~Schedulable(h)
              /\ sched_ret = ScheduleWithGap(tracks, g)
              /\ IF randomize THEN order = sched_ret.value ELSE ret = sched_ret
    /\ Raised => Len(attempts) = HiBound - LoBound + 1

\* C7 witness: a schedule returned at a positive gap after a larger gap
\* passed the analyzer and failed in the scheduler
C7_Witness ==
    /\ Returned
    /\ \E k \in DOMAIN attempts :
          attempts[k].feasible /\ ~attempts[k].scheduled
    /\ attempts[Len(attempts)].gap > 0

\* names whose merged count is the highest
MostFrequent(t) ==
    {name \in Names :
        /\ MergedCount(t, name) > 0
        /\ \A other \in Names : MergedCount(t, other) <= MergedCount(t, name)}

\* C8 (as claimed): whenever generate_round_robin fails, the error's message
\* names the most frequent item(s) and states the shortfall and the maximum
\* feasible count of the bottleneck item.
C8_DiagnosticNamesBottleneck ==
    Raised =>
        /\ ret.exc = "ValueError"
        /\ {"most_songs", "extra_others_needed",
            "max_feasible_for_max_song"} \subseteq DOMAIN ret.msg
        /\ {ret.msg.most_songs[i] : i \in DOMAIN ret.msg.most_songs}
               = MostFrequent(tracks)

\* C9: for an empty list, or a list whose counts are all <= 0,
\* generate_round_robin returns the empty sequence, whatever the bounds and
\* randomize.
C9_EmptyReturnsEmpty ==
    (pc = "done" /\ \A i \in DOMAIN tracks : tracks[i].count <= 0) =>
        ret = Return(<<>>)

\* C9 witness: a randomized call at positive bounds on a non-empty list with
\* a zero and a negative count
C9_Witness ==
    /\ pc = "done"
    /\ randomize
    /\ LoBound > 0
    /\ \E i, j \in DOMAIN tracks : tracks[i].count = 0 /\ tracks[j].count < 0
    /\ ret = Return(<<>>)

\* C10: the outcome of a call equals the outcome of the call with the two
\* gap bounds exchanged (the schedule with randomize=false, the failure in
\* both modes), and after the entry the search runs from the larger bound
\* down to the smaller.
C10_BoundsSymmetric ==
    /\ pc # "entry" =>
          preferred_gap = HiBound /\ min_allowed_gap = LoBound
    /\ (pc = "done" /\ (~randomize \/ ret.kind = "raise")) =>
          ret = GenerateRoundRobin(tracks, args.min_allowed_gap,
                                   args.preferred_gap)

\* C10 witness: a call with preferred_gap below min_allowed_gap that falls
\* back once and returns a schedule
C10_Witness ==
    /\ Returned
    /\ ~randomize
    /\ args.preferred_gap < args.min_allowed_gap
    /\ args.preferred_gap > 0
    /\ Len(attempts) >= 2
    /\ Len(ret.value) >= 3

\* the entries of t with a positive count, in their order
Positive(t) == SelectSeq(t, LAMBDA e : e.count > 0)

\* names with no entry of positive count
Uncounted(t) == {name \in Names : MergedCount(t, name) = 0}

\* C12: entries with count <= 0 are inert: the analyzer's report and the
\* outcome of generate_round_robin are those of the list without them, and
\* a name with no positive entry appears neither in the output nor in
\* most_songs nor in total.
C12_NonPositiveInert ==
    /\ info # NoneVal =>
          /\ info = AnalyzeGapFeasibility(Positive(tracks), info.gap)
          /\ \A i \in DOMAIN info.most_songs :
                info.most_songs[i] \notin Uncounted(tracks)
          /\ info.total = TotalCount(tracks)
    /\ (pc = "done" /\ (~randomize \/ ret.kind = "raise")) =>
          ret = GenerateRoundRobin(Positive(tracks), args.preferred_gap,
                                   args.min_allowed_gap)
    /\ pc \in {"rand_entry", "rand_loop"} =>
          Return(order) = ScheduleWithGap(Positive(tracks), rand_min_gap)
    /\ Returned =>
          \A i \in DOMAIN ret.value : ret.value[i] \notin Uncounted(tracks)

\* C12 witness: a schedule returned at a positive gap for a list with a zero
\* entry of another name, a positive entry and a negative entry of its name
C12_Witness ==
    /\ Returned
    /\ LoBound > 0
    /\ Len(tracks) = 3
    /\ tracks[1].count = 0
    /\ tracks[2].count > 0
    /\ tracks[3].count < 0
    /\ tracks[1].name # tracks[2].name
    /\ tracks[3].name = tracks[2].name
    /\ ret.value = <<tracks[2].name>>

\* highest merged count of t
MaxMerged(t) ==
    CHOOSE c \in {MergedCount(t, name) : name \in Names} :
        \A name \in Names : MergedCount(t, name) <= c

\* The report for the counts A:4, B:2, C:2.
ExampleReport(g) ==
    AnalyzeGapFeasibility(<<[name |-> 1, count |-> 4], [name |-> 2, count |-> 2],
                            [name |-> 3, count |-> 2]>>, g)

\* C13: for a non-empty distribution and gap > 0 the report holds total,
\* max_count, most_songs (the items tied at max_count), others = total -
\* max_count, required_others = gap*(max_count-1), feasible = (others >=
\* required_others), extra_others_needed = max(0, required_others - others)
\* and max_feasible_for_max_song = 1 + floor(others/gap); A:4, B:2, C:2 at
\* gap 2 is infeasible with extra_others_needed = 2.
C13_ReportFields ==
    /\ (pc = "done" /\ gap > 0 /\ TotalCount(tracks) > 0) =>
          LET t == TotalCount(tracks)
              m == MaxMerged(tracks)
              o == t - m
              r == gap * (m - 1)
          IN  /\ info.gap = gap
              /\ info.total = t
              /\ info.max_count = m
              /\ {info.most_songs[i] : i \in DOMAIN info.most_songs}
                     = MostFrequent(tracks)
              /\ Len(info.most_songs) = Cardinality(MostFrequent(tracks))
              /\ info.others = o
              /\ info.required_others = r
              /\ info.feasible = (o >= r)
              /\ info.extra_others_needed = (IF r - o > 0 THEN r - o ELSE 0)
              /\ \E q \in 0..o :
                    /\ q * gap <= o
                    /\ o < (q + 1) * gap
                    /\ info.max_feasible_for_max_song = 1 + q
              /\ ret = Return(info)
    /\ ~ExampleReport(2).feasible
    /\ ExampleReport(2).extra_others_needed = 2
    /\ ExampleReport(2).others = 4
    /\ ExampleReport(2).required_others = 6

\* C13 witness: an infeasible report with a shortfall of 2 and two other
\* occurrences
C13_Witness ==
    /\ pc = "done"
    /\ call = "analyze_gap_feasibility"
    /\ gap = 2
    /\ ~info.feasible
    /\ info.extra_others_needed = 2
    /\ info.others = 2
    /\ info.max_feasible_for_max_song = 2

\* a and b hold the same names the same number of times
IsPermutation(a, b) ==
    /\ Len(a) = Len(b)
    /\ \A name \in Names : Occurrences(a, name) = Occurrences(b, name)

\* C14: for an order that respects a gap g > 0, the working sequence of
\* _randomize_schedule_preserving_gap respects g and is a permutation of
\* the order after every one of the passes*n candidate swaps, kept or
\* reverted, and so is the returned sequence.
C14_RandomizerSafe ==
    /\ pc = "rand_loop" =>
          /\ rand_min_gap > 0
          /\ GapRespected(order, rand_min_gap)
          /\ GapRespected(res, rand_min_gap)
          /\ IsPermutation(res, order)
          /\ draws <= Passes * Len(order)
    /\ (pc = "done" /\ rand_min_gap > 0 /\ GapRespected(order, rand_min_gap)) =>
          /\ ret = Return(res)
          /\ GapRespected(res, rand_min_gap)
          /\ IsPermutation(res, order)
          /\ Len(order) > 2 => draws = Passes * Len(order)

\* C14 witness: a kept swap has changed an order in which a name repeats,
\* and draws remain
C14_Witness ==
    /\ call = "_randomize_schedule_preserving_gap"
    /\ pc = "rand_loop"
    /\ draws >= 2
    /\ draws < Passes * Len(order)
    /\ res # order
    /\ \E name \in Names : Occurrences(order, name) >= 2

\* C15: with gap <= 0, or with an order of length <= 2 whatever the gap
\* (even an order that violates it), the randomizer makes no draw and
\* returns a sequence equal to its input.
C15_RandomizerIdentity ==
    (rand_min_gap <= 0 \/ Len(order) <= 2) =>
        /\ pc # "rand_loop"
        /\ draws = 0
        /\ pc = "done" => (ret = Return(order) /\ res = order)

\* C15 witness: the order [A, A] returned unchanged at gap 1
C15_Witness ==
    /\ call = "_randomize_schedule_preserving_gap"
    /\ pc = "done"
    /\ order = <<1, 1>>
    /\ rand_min_gap = 1
    /\ ret = Return(<<1, 1>>)

\* C16: no call of generate_round_robin ends in an AssertionError: the
\* sequence the scheduler built passes its post-hoc gap check, and the
\* schedule handed to the randomizer passes its initial validity assertion.
C16_NoAssertion ==
    /\ ret.kind = "raise" => ret.exc # "AssertionError"
    /\ sched_ret.kind = "raise" => sched_ret.exc # "AssertionError"
    /\ (pc = "sched_post" /\ min_gap > 0) => GapRespected(result, min_gap)
    /\ (pc = "rand_entry" /\ rand_min_gap > 0) =>
          GapRespected(order, rand_min_gap)

\* C16 witness: both checks were evaluated on a schedule of four or more
\* entries with a repeated name, and the randomizer is drawing
C16_Witness ==
    /\ call = "generate_round_robin"
    /\ pc = "rand_loop"
    /\ Len(order) >= 4
    /\ \E name \in Names : Occurrences(order, name) >= 2
    /\ sched_ret = Return(order)

\* C17: a failure of the scheduler at a gap g the analyzer accepted is not
\* propagated: the loop goes on with g-1 when g-1 is within the bounds and
\* returns that gap's schedule if it can be built; the call fails only
\* when the smallest gap of the range has been tried.
C17_SchedulerFailureFallsBack ==
    /\ pc = "done" =>
          \A k \in DOMAIN attempts :
              (attempts[k].feasible /\ ~attempts[k].scheduled) =>
                  IF attempts[k].gap - 1 >= LoBound
                  THEN /\ k < Len(attempts)
                       /\ attempts[k + 1].gap = attempts[k].gap - 1
                       /\ Schedulable(attempts[k].gap - 1) =>
                             /\ Returned
                             /\ sched_ret =
                                  ScheduleWithGap(tracks, attempts[k].gap - 1)
                  ELSE k = Len(attempts) /\ Raised
    /\ Raised =>
          /\ ret.exc = "ValueError"
          /\ attempts[Len(attempts)].gap = LoBound
    /\ (pc = "fallback" /\ sched_ret.kind = "raise") =>
          /\ attempts[Len(attempts)].gap = gap + 1
          /\ last_issue = AnalyzeGapFeasibility(tracks, gap + 1)

\* C17 witness: a randomized call whose first gap passed the analyzer and
\* failed in the scheduler, and which returned the next gap's schedule
C17_Witness ==
    /\ Returned
    /\ randomize
    /\ Len(attempts) = 2
    /\ attempts[1].feasible
    /\ ~attempts[1].scheduled
    /\ attempts[2].scheduled
    /\ attempts[2].gap >= 1

\* last position (1-based) of name in seq, 0 if none
LastIndex(seq, name) ==
    LET at == {i \in DOMAIN seq : seq[i] = name}
    IN  IF at = {} THEN 0 ELSE CHOOSE i \in at : \A j \in at : j <= i

\* C18: at the loop test of _schedule_with_gap with gap g > 0 (step = the
\* 0-based position about to be filled), an item last placed at 0-based
\* position p with occurrences left waits in the cooldown queue, absent
\* from the heap, with ready_step p+g+1 >= step, and an item of the heap
\* placed before has step >= p+g+1; so no item is placed before p+g+1.
\* (q below is the 1-based position p+1.)
C18_CooldownTiming ==
    (pc = "sched_loop" /\ min_gap > 0) =>
        /\ \A i \in DOMAIN cooldown :
              LET q == LastIndex(result, cooldown[i][3])
              IN  /\ q > 0
                  /\ cooldown[i][1] = q + min_gap
                  /\ cooldown[i][1] >= step
                  /\ \A j \in DOMAIN heap : heap[j][2] # cooldown[i][3]
        /\ \A j \in DOMAIN heap :
              LET q == LastIndex(result, heap[j][2])
              IN  q > 0 => step >= q + min_gap
        /\ step = Len(result)
        /\ GapRespected(result, min_gap)

\* C18 witness: the only item left comes out of the cooldown at this very
\* step, 2 positions after its last one
C18_Witness ==
    /\ call = "_schedule_with_gap"
    /\ pc = "sched_loop"
    /\ min_gap = 2
    /\ heap = <<>>
    /\ Len(cooldown) = 1
    /\ cooldown[1][1] = step
    /\ LastIndex(result, cooldown[1][3]) = step - 2

\* C19: the cooldown queue is ordered by non-decreasing ready_step from head
\* to tail in every state, and when the scheduler fails after releasing
\* from the head, no entry left in the queue has expired.
C19_CooldownSorted ==
    /\ \A i, j \in DOMAIN cooldown :
          i < j => cooldown[i][1] <= cooldown[j][1]
    /\ (pc = "done" /\ ret.kind = "raise") =>
          \A i \in DOMAIN cooldown : cooldown[i][1] > step

\* C19 witness: two items wait in the queue at gap 2
C19_Witness ==
    /\ call = "_schedule_with_gap"
    /\ pc = "sched_loop"
    /\ min_gap = 2
    /\ Len(cooldown) >= 2
    /\ cooldown[1][1] < cooldown[2][1]

\* the <<remaining count, name>> of the items that can be placed at this
\* step: those of the heap and those whose cooldown has expired
Eligible ==
    {<<-heap[j][1], heap[j][2]>> : j \in DOMAIN heap}
    \cup {<<-cooldown[i][2], cooldown[i][3]>> :
            i \in {k \in DOMAIN cooldown : cooldown[k][1] <= step}}

\* C20: every step of _schedule_with_gap (gap > 0) that appends a name
\* appends an eligible item whose remaining count is the highest among the
\* eligible ones.
C20_PlacesHighestEligible ==
    [][(pc = "sched_loop" /\ min_gap > 0 /\ Len(result') = Len(result) + 1) =>
          \E e \in Eligible :
              /\ e[2] = result'[Len(result')]
              /\ \A o \in Eligible : o[1] <= e[1]]_vars

\* C20 witness: a step at which an item just out of its cooldown and an
\* item of the heap are eligible with different remaining counts
C20_Witness ==
    /\ call = "_schedule_with_gap"
    /\ pc = "sched_loop"
    /\ min_gap > 0
    /\ heap # <<>>
    /\ \E i \in DOMAIN cooldown :
          /\ cooldown[i][1] <= step
          /\ -cooldown[i][2] # -heap[1][1]

\* nothing can be placed at this step and something is still waiting
Stuck ==
    /\ heap = <<>>
    /\ cooldown # <<>>
    /\ \A i \in DOMAIN cooldown : cooldown[i][1] > step

\* C21: with gap > 0, an iteration of the main loop of _schedule_with_gap
\* raises exactly when the heap is empty and the queue holds only entries
\* that have not expired, and then with the 'heap empty' message; otherwise
\* it places one name (no idle step), or leaves the loop with both
\* structures empty (never by the break); the check after the loop never
\* raises.
C21_FailsExactlyWhenStuck ==
    [][/\ (pc = "sched_loop" /\ min_gap > 0) =>
            /\ (pc' = "done" /\ ret'.kind = "raise") <=> Stuck
            /\ ret'.kind = "raise" =>
                  ret' = Raise("ValueError", Text("Cannot schedule with given gap; heap empty while songs remain."))
            /\ pc' = "sched_post" <=> (heap = <<>> /\ cooldown = <<>>)
            /\ pc' \in {"sched_loop", "sched_post", "done"}
            /\ pc' = "sched_loop" =>
                  /\ Len(result') = Len(result) + 1
                  /\ step' = step + 1
            /\ pc' # "sched_loop" => result' = result /\ step' = step
       /\ (pc = "sched_post" /\ min_gap > 0) =>
            (pc' = "done" /\ ret' = Return(result))]_vars

\* C21 witness: the scheduler failed after placing two names, one item
\* still waiting
C21_Witness ==
    /\ call = "_schedule_with_gap"
    /\ pc = "done"
    /\ min_gap > 0
    /\ ret.kind = "raise"
    /\ Len(result) >= 2
    /\ heap = <<>>
    /\ cooldown # <<>>

\* the main loop of _schedule_with_gap has run step iterations that placed
\* a name, at most total in all; a failed call has run one more, the one
\* that raised; a successful one with gap > 0 ends with the structures empty
SchedulerBounded ==
    /\ pc \in {"sched_loop", "sched_post"} =>
          /\ step = Len(result)
          /\ step <= total
    /\ (pc = "sched_post" \/ (pc = "after_schedule" /\ sched_ret.kind = "return"
                              /\ min_gap > 0)) =>
          /\ step = total
          /\ heap = <<>>
          /\ cooldown = <<>>
    /\ (pc = "after_schedule" /\ sched_ret.kind = "raise") => step + 1 <= total

\* iterations of the fallback loop, the one in progress included
FallbackBounded ==
    Len(attempts)
      + (IF pc \in {"sched_entry", "sched_loop", "sched_post", "after_schedule"}
         THEN 1 ELSE 0)
    <= HiBound - LoBound + 1

\* C22 (as claimed): the bounds on the iterations, the randomizer ending
\* after exactly passes * n draws for every order.
C22_BoundsAsClaimed ==
    /\ SchedulerBounded
    /\ FallbackBounded
    /\ (Returned /\ randomize) => draws = Passes * Len(order)

\* C22 (amended): every call ends; _schedule_with_gap after at most total
\* iterations of its loop, with both structures empty on success; the
\* fallback loop after at most max(bounds) - min(bounds) + 1 iterations; the
\* randomizer after exactly passes * n draws when min_gap > 0 and n > 2,
\* and without any draw otherwise.
C22_Terminates ==
    /\ <>(pc = "done")
    /\ [](/\ pc \in {"entry", "fallback", "sched_entry", "sched_loop",
                    "sched_post", "after_schedule", "exhausted",
                    "rand_entry", "rand_loop", "done"}
          /\ SchedulerBounded
          /\ FallbackBounded
          /\ draws <= Passes * Len(order)
          /\ (Returned /\ randomize) =>
                draws = IF rand_min_gap > 0 /\ Len(order) > 2
                        THEN Passes * Len(order) ELSE 0)

\* C22 witness: a randomized return after every gap of the range was tried
\* and every draw of the swap loop was made
C22_Witness ==
    /\ Returned
    /\ randomize
    /\ Len(order) > 2
    /\ draws = Passes * Len(order)
    /\ Len(attempts) >= 2
    /\ Len(attempts) = HiBound - LoBound + 1
    /\ step = total

\* C23: when generate_round_robin leaves its loop without a schedule, every
\* gap of the range was attempted, the last one being the smaller bound,
\* and last_issue is the analyzer's report for that gap, whether the
\* analyzer rejected it or the scheduler failed at it; the diagnostic is
\* the explanation for that gap.
C23_LastIssueIsSmallestGap ==
    (pc = "exhausted" \/ (Raised /\ ret.exc = "ValueError")) =>
        /\ last_issue # NoneVal
        /\ last_issue.gap = LoBound
        /\ last_issue = AnalyzeGapFeasibility(tracks, LoBound)
        /\ Len(attempts) = HiBound - LoBound + 1
        /\ attempts[Len(attempts)].gap = LoBound
        /\ ~attempts[Len(attempts)].scheduled
        /\ Raised =>
              IF last_issue.feasible
              THEN ret.msg = Text("Cannot schedule playlist with given gaps.")
              ELSE ret.msg.gap = LoBound

\* C23 witness: the range has two positive gaps, both rejected by the
\* analyzer, the bounds passed in ascending order
C23_Witness ==
    /\ Raised
    /\ 0 < LoBound
    /\ LoBound < HiBound
    /\ args.preferred_gap = LoBound
    /\ ~attempts[1].feasible
    /\ last_issue.gap = LoBound

\* The list with every name's entries merged: one entry per name with a
\* positive entry, in the place of the name's first positive entry, its
\* count the sum of the name's positive counts.
RECURSIVE MergedFrom(_, _)
MergedFrom(t, i) ==
    IF i > Len(t) THEN <<>>
    ELSE (IF /\ t[i].count > 0
             /\ \A j \in 1..(i - 1) : ~(t[j].name = t[i].name /\ t[j].count > 0)
          THEN <<[name |-> t[i].name, count |-> MergedCount(t, t[i].name)]>>
          ELSE <<>>)
         \o MergedFrom(t, i + 1)

MergedTracks(t) == MergedFrom(t, 1)

\* C24: a finished call of _schedule_with_gap ends as the call for the
\* merged list ends, a returned schedule holding each name as often as the
\* sum of its positive counts; the analyzer's report for the list is its
\* report for the merged list, its total the sum of the positive counts.
C24_DuplicatesMerged ==
    pc = "done" =>
        /\ ret = ScheduleWithGap(MergedTracks(tracks), min_gap)
        /\ ret.kind = "return" =>
              \A name \in Names :
                  Occurrences(ret.value, name) = MergedCount(tracks, name)
        /\ AnalyzeGapFeasibility(tracks, min_gap)
              = AnalyzeGapFeasibility(MergedTracks(tracks), min_gap)
        /\ AnalyzeGapFeasibility(tracks, min_gap).total = TotalCount(tracks)

\* C24 witness: a schedule at a positive gap for a list with a name split
\* over two positive entries around another name's entry
C24_Witness ==
    /\ call = "_schedule_with_gap"
    /\ pc = "done"
    /\ min_gap > 0
    /\ ret.kind = "return"
    /\ Len(tracks) = 3
    /\ tracks[1].name = tracks[3].name
    /\ tracks[2].name # tracks[1].name
    /\ \A i \in DOMAIN tracks : tracks[i].count > 0
    /\ MergedTracks(tracks) # tracks

\* C25 (as claimed): after the analyzer reported a distribution infeasible
\* at a gap g > 0 and extra_others_needed new single-occurrence songs were
\* added, generate_round_robin with both bounds g returns a schedule.
C25_RemedyRecovers ==
    (call = "generate_round_robin" /\ pc = "done") => ret.kind = "return"

\* C26: for a list without a positive count analyze_gap_feasibility returns
\* feasible with every counter 0 and no most frequent song, for any gap;
\* for a list with a positive count and a gap <= 0 it returns feasible with
\* required_others = 0 and extra_others_needed = 0.
C26_TrivialReports ==
    (call = "analyze_gap_feasibility" /\ pc = "done") =>
        /\ TotalCount(tracks) = 0 =>
              ret.value = [feasible |-> TRUE, gap |-> gap, total |-> 0,
                           max_count |-> 0, most_songs |-> <<>>, others |-> 0,
                           required_others |-> 0, extra_others_needed |-> 0,
                           max_feasible_for_max_song |-> 0]
        /\ (TotalCount(tracks) > 0 /\ gap <= 0) =>
              /\ ret.value.feasible
              /\ ret.value.gap = gap
              /\ ret.value.required_others = 0
              /\ ret.value.extra_others_needed = 0

\* C26 witness: the report for a negative gap and counts that no positive
\* gap could satisfy
C26_Witness ==
    /\ call = "analyze_gap_feasibility"
    /\ pc = "done"
    /\ gap < 0
    /\ TotalCount(tracks) >= 2
    /\ ~ExistsValidOrdering(tracks, 1)
    /\ ret.value.feasible

\* occurrences still to place held by the heap and by the cooldown queue
RECURSIVE SumAt(_, _)
SumAt(seq, k) ==
    IF seq = <<>> THEN 0 ELSE -Head(seq)[k] + SumAt(Tail(seq), k)

Waiting ==
    [j \in DOMAIN heap |-> heap[j][2]]
    \o [i \in DOMAIN cooldown |-> cooldown[i][3]]

\* C27: in every state of the main loop of _schedule_with_gap, the names
\* placed and the remaining counts of the heap and of the cooldown queue
\* add up to total, every remaining count is > 0, and no name is held
\* twice by the heap and the queue together.
C27_Conservation ==
    (pc \in {"sched_loop", "sched_post"} /\ min_gap > 0) =>
        /\ Len(result) + SumAt(heap, 1) + SumAt(cooldown, 2) = total
        /\ total = TotalCount(tracks)
        /\ \A j \in DOMAIN heap : -heap[j][1] > 0
        /\ \A i \in DOMAIN cooldown : -cooldown[i][2] > 0
        /\ \A a, b \in DOMAIN Waiting : a # b => Waiting[a] # Waiting[b]
        /\ \A a \in DOMAIN Waiting :
              Occurrences(result, Waiting[a])
                  < MergedCount(tracks, Waiting[a])

\* C27 witness: in the middle of a call, one item in the heap and two in
\* the cooldown queue
C27_Witness ==
    /\ call = "_schedule_with_gap"
    /\ pc = "sched_loop"
    /\ min_gap > 0
    /\ Len(heap) = 1
    /\ Len(cooldown) = 2
    /\ Len(result) = 2

\* every name's occurrences side by side, the names in the order of their
\* first positive entry
RECURSIVE Blocks(_)
Blocks(m) ==
    IF m = <<>> THEN <<>>
    ELSE [i \in 1..Head(m).count |-> Head(m).name] \o Blocks(Tail(m))

\* C28: when the smaller gap bound is <= 0, generate_round_robin ends with
\* a schedule for every input; a schedule built at a gap <= 0 holds every
\* name's occurrences side by side in first-insertion order; and for any
\* bounds the loop is never left without a failed attempt, so that
\* 'No tracks to schedule.' is never raised.
C28_NonPositiveBoundNeverRaises ==
    /\ (pc = "done" /\ LoBound <= 0) => ret.kind = "return"
    /\ (Returned /\ attempts[Len(attempts)].gap <= 0) =>
          ret.value = Blocks(MergedTracks(tracks))
    /\ \A k \in DOMAIN attempts :
          attempts[k].gap <= 0 => attempts[k].feasible /\ attempts[k].scheduled
    /\ pc = "exhausted" => last_issue # NoneVal
    /\ Raised => ret.msg # Text("No tracks to schedule.")

\* C28 witness: every positive gap of the range failed and the schedule
\* was built at gap 0, two names grouped
C28_Witness ==
    /\ Returned
    /\ HiBound = MaxGap
    /\ Len(attempts) = MaxGap + 1
    /\ attempts[Len(attempts)].gap = 0
    /\ \E i, j \in DOMAIN ret.value : ret.value[i] # ret.value[j]

\* the lists with the entries of t in another order
Reorderings(t) ==
    {[i \in DOMAIN t |-> t[f[i]]] :
        f \in {g \in [DOMAIN t -> DOMAIN t] :
                 \A a, b \in DOMAIN t : a # b => g[a] # g[b]}}

\* C29: with gap > 0, _schedule_with_gap ends in the same way, with the
\* same schedule, for every reordering of the input entries; and a step
\* places, among the eligible items of the highest remaining count, the one
\* with the smallest name.
C29_OrderIndependent ==
    /\ [](((pc = "done" /\ min_gap > 0) =>
              \A t \in Reorderings(tracks) : ScheduleWithGap(t, min_gap) = ret))
    /\ [][(pc = "sched_loop" /\ min_gap > 0 /\ Len(result') = Len(result) + 1) =>
              \A e \in Eligible :
                  (\A o \in Eligible : o[1] <= e[1]) =>
                      result'[Len(result')] <= e[2]]_vars

\* C29 witness: a schedule for three names, two of them tied and entered
\* in descending order of name
C29_Witness ==
    /\ call = "_schedule_with_gap"
    /\ pc = "done"
    /\ min_gap > 0
    /\ ret.kind = "return"
    /\ Len(tracks) = 3
    /\ tracks[1].name > tracks[2].name
    /\ tracks[2].name > tracks[3].name
    /\ tracks[1].count = MaxCount
    /\ tracks[2].count = MaxCount
    /\ tracks[3].count > 0

\* the gaps compared: those of the model and one beyond
TestGaps == -1..(MaxGap + 1)

Succeeds(g) == ScheduleWithGap(tracks, g).kind = "return"

\* C30: a gap below a gap the analyzer accepts is accepted; a gap >= 0
\* below a gap > 0 at which _schedule_with_gap succeeds succeeds; and
\* generate_round_robin returns the schedule of the largest gap of the range
\* at which _schedule_with_gap succeeds, raising only if there is none.
C30_MonotoneInGap ==
    pc = "done" =>
        /\ ~randomize =>
              \A g, h \in TestGaps :
                  h < g =>
                      /\ Feasible(g) => Feasible(h)
                      /\ (g > 0 /\ h >= 0 /\ Succeeds(g)) => Succeeds(h)
        /\ Returned =>
              LET achieved == attempts[Len(attempts)].gap
              IN  /\ achieved \in LoBound..HiBound
                  /\ Succeeds(achieved)
                  /\ \A g \in (achieved + 1)..HiBound : ~Succeeds(g)
                  /\ ~randomize => ret = ScheduleWithGap(tracks, achieved)
        /\ Raised => \A g \in LoBound..HiBound : ~Succeeds(g)

\* C30 witness: the schedule was built at gap 1, the largest gap of the
\* range 0..2 at which the scheduler succeeds, gap 2 being accepted by the
\* analyzer and failed by the scheduler
C30_Witness ==
    /\ Returned
    /\ LoBound <= 0
    /\ HiBound = 2
    /\ Len(attempts) = 2
    /\ attempts[1].feasible
    /\ attempts[2].gap = 1
    /\ Succeeds(0)

====
